---- MODULE Spec2Model ----
(***************************************************************************)
(* A model of screenpy's thin core: the BrowseTheWeb ability               *)
(* (abilities/browse_the_web.py), the Clear action (actions/clear.py) and  *)
(* the IsEqualTo / ReadsExactly resolutions (resolutions/*.py).            *)
(*                                                                         *)
(* Every method is one action.  A method's run is summarised by the calls  *)
(* it issued, in order, and by its outcome (a return or a raise).  The     *)
(* browser driver, the page's elements and the matcher library are         *)
(* external: what they answer is an input chosen with \E.                  *)
(***************************************************************************)
EXTENDS Integers, Sequences, FiniteSets, TLC

VARIABLES
    abilities,    \* Actor.abilities: actor -> the ability kinds it was given
    forgetCalls,  \* actor -> how many times forget() ran on its BrowseTheWeb
    quitCalls,    \* actor -> how many quit() calls its browser received
    last,         \* the last ability/action method that ran: inputs, calls, outcome
    resolution,   \* the resolution object under evaluation
    check,        \* the last evaluation of resolution.matcher
    description   \* the last rendering of resolution.line

vars == <<abilities, forgetCalls, quitCalls, last, resolution, check, description>>
webVars == <<abilities, forgetCalls, quitCalls, last>>
resVars == <<resolution, check, description>>

----------------------------------------------------------------------------
(* Bounds *)

MaxForget == 2   \* forget() calls per ability
MaxLen == 2      \* length of the strings handed to the resolutions
MaxInt == 5      \* largest number handed to the resolutions

----------------------------------------------------------------------------
(* Outcomes, calls, errors *)

Returned(v) == [kind |-> "return", error |-> "", msg |-> <<>>, value |-> v]
Raised(e, m) == [kind |-> "raise", error |-> e, msg |-> m, value |-> ""]
Call(fn, arg) == [fn |-> fn, arg |-> arg]

None == "None"

DeliveryError == "DeliveryError"
UnableToPerformError == "UnableToPerformError"
WebDriverException == "WebDriverException"
TimeoutException == "TimeoutException"
NoSuchElementException == "NoSuchElementException"
InvalidElementStateException == "InvalidElementStateException"
AttributeError == "AttributeError"

\* selenium.common.exceptions: every driver error derives from WebDriverException
DriverErrors ==
    {WebDriverException, TimeoutException, NoSuchElementException,
     InvalidElementStateException}

\* `except WebDriverException` catches the class and its subclasses
IsWebDriverException(k) == k \in DriverErrors

\* `except TimeoutException`
IsTimeoutException(k) == k = TimeoutException

\* an error as the driver (or a mocked element) raises it, with the driver's text
DriverError(k) == Raised(k, <<"Message: ", "the driver's own text">>)

----------------------------------------------------------------------------
(* str.format and tuple formatting *)

Lit(s) == [isField |-> FALSE, text |-> s]
Field(s) == [isField |-> TRUE, text |-> s]

\* template.format(**kwargs): the pieces of the resulting text, in order
Format(template, kwargs) ==
    [i \in DOMAIN template |->
        IF template[i].isField THEN kwargs[template[i].text] ELSE template[i].text]

RECURSIVE Join(_)
Join(pieces) == IF pieces = <<>> THEN "" ELSE Head(pieces) \o Join(Tail(pieces))

\* str() of a (by, selector) tuple
TupleStr(locator) == "('" \o locator[1] \o "', '" \o locator[2] \o "')"

Contains(msg, piece) == \E i \in DOMAIN msg : msg[i] = piece

----------------------------------------------------------------------------
(* Actors, targets, locators *)

BrowseTheWeb == "BrowseTheWeb"

Actors == {"Tester", "Perrin"}

Locators == {<<"id", "comment">>, <<"css selector", "#name">>}

AsTuple(loc) == [tag |-> "tuple", name |-> "", locator |-> loc]
Target(name, loc) == [tag |-> "Target", name |-> name, locator |-> loc]

COMMENT_FIELD == Target("comment field", <<"id", "comment">>)
NAME_INPUT == Target("name input", <<"css selector", "#name">>)
Targets == {COMMENT_FIELD, NAME_INPUT}

\* Target.get_locator()
GetLocator(target) == target.locator

\* str(target), as used by f"{self.target}"
TargetStr(target) == target.name

\* isinstance(locator, tuple)
IsTuple(x) == x.tag = "tuple"

\* the element handle the driver answers for a locator
ElementOf(locator) == "<" \o locator[2] \o ">"

----------------------------------------------------------------------------
(* What the browser driver and the page answer (inputs of the actions) *)

FindAnswers == {"ok", NoSuchElementException, WebDriverException}
FindAllAnswers == {"ok", "empty", WebDriverException}
ClearAnswers == {"ok"} \cup DriverErrors \cup {AttributeError}
QuitAnswers == {"ok", WebDriverException}

DefaultTimeout == 20
Timeouts == {1, DefaultTimeout}

DefaultCond == "visibility_of_element_located"
Conds == {DefaultCond, "presence_of_element_located"}

\* when the page comes to satisfy the condition: at once, just in time, too late
ReadyTimes(timeout) == {0, timeout - 1, timeout + 1}

NoEnv == [find |-> "", clear |-> "", quit |-> "", ready |-> -1, crash |-> FALSE]

----------------------------------------------------------------------------
(* BrowseTheWeb *)

\* WebDriverWait(browser, timeout).until(cond(locator)): polls the condition
\* until it holds or the timeout has elapsed; an error of the driver other
\* than the ones it ignores ends the wait at once
Until(timeout, cond, locator, ready, crash) ==
    [calls |-> <<Call("until", cond \o TupleStr(locator))>>,
     out |-> IF crash THEN DriverError(WebDriverException)
             ELSE IF ready < timeout THEN Returned(ElementOf(locator))
             ELSE Raised(TimeoutException, <<"Message: ">>)]

\* BrowseTheWeb.find
Find(locator, answer) ==
    [calls |-> <<Call("find", TupleStr(locator)),
                 Call("find_element", TupleStr(locator))>>,
     out |-> IF answer = "ok" THEN Returned(ElementOf(locator))
             ELSE DriverError(answer)]

\* BrowseTheWeb.find_all
FindAll(locator, answer) ==
    [calls |-> <<Call("find_all", TupleStr(locator)),
                 Call("find_elements", TupleStr(locator))>>,
     out |-> IF answer = "ok" THEN Returned("[" \o ElementOf(locator) \o "]")
             ELSE IF answer = "empty" THEN Returned("[]")
             ELSE DriverError(answer)]

WaitMsg ==
    <<Lit("Waiting "), Field("time"), Lit(" seconds for '"), Field("ele"),
      Lit("' to satisfy "), Field("cond"), Lit(" timed out.")>>

\* a wait_for that lets the driver's TimeoutException through as raised
WaitForNoRewrite(arg, timeout, cond, ready, crash) ==
    LET locator == IF IsTuple(arg) THEN arg.locator ELSE GetLocator(arg)
        w == Until(timeout, cond, locator, ready, crash)
    IN  IF w.out.kind = "raise" THEN w ELSE [calls |-> w.calls, out |-> Returned(None)]

\* BrowseTheWeb.wait_for
WaitFor(arg, timeout, cond, ready, crash) ==
    LET locator == IF IsTuple(arg) THEN arg.locator ELSE GetLocator(arg)
        w == Until(timeout, cond, locator, ready, crash)
    IN  IF w.out.kind = "raise" /\ IsTimeoutException(w.out.error)
        THEN [calls |-> w.calls,
              out |-> Raised(TimeoutException,
                             Format(WaitMsg, [time |-> ToString(timeout),
                                              ele |-> TupleStr(locator),
                                              cond |-> cond]))]
        ELSE IF w.out.kind = "raise" THEN w
        ELSE [calls |-> w.calls, out |-> Returned(None)]

\* a wait_then_find that looks the element up whatever the wait did
WaitThenFindEager(locator, timeout, cond, ready, crash, answer) ==
    LET w == WaitFor(AsTuple(locator), timeout, cond, ready, crash)
        f == Find(locator, answer)
    IN  [calls |-> w.calls \o f.calls, out |-> f.out]

\* BrowseTheWeb.wait_then_find
WaitThenFind(locator, timeout, cond, ready, crash, answer) ==
    LET w == WaitFor(AsTuple(locator), timeout, cond, ready, crash)
        f == Find(locator, answer)
    IN  IF w.out.kind = "raise" THEN w
        ELSE [calls |-> w.calls \o f.calls, out |-> f.out]

\* BrowseTheWeb.wait_then_find_all
WaitThenFindAll(locator, timeout, cond, ready, crash, answer) ==
    LET w == WaitFor(AsTuple(locator), timeout, cond, ready, crash)
        f == FindAll(locator, answer)
    IN  IF w.out.kind = "raise" THEN w
        ELSE [calls |-> w.calls \o f.calls, out |-> f.out]

\* a forget that quits the browser only the first time
ForgetOnce(quitsSoFar, answer) ==
    IF quitsSoFar > 0 THEN [calls |-> <<>>, out |-> Returned(None)]
    ELSE [calls |-> <<Call("quit", "")>>,
          out |-> IF answer = "ok" THEN Returned(None) ELSE DriverError(answer)]

\* BrowseTheWeb.forget
Forget(quitsSoFar, answer) ==
    [calls |-> <<Call("quit", "")>>,
     out |-> IF answer = "ok" THEN Returned(None) ELSE DriverError(answer)]

----------------------------------------------------------------------------
(* Actor and Target (screenpy.actor, screenpy.target) *)

\* Actor.ability_to(BrowseTheWeb): the ability, or the error of the actor
\* that was never given it
AbilityTo(has) ==
    IF has THEN Returned(BrowseTheWeb)
    ELSE Raised(UnableToPerformError, <<"the actor cannot ", BrowseTheWeb>>)

\* Target.found_by(the_actor): the actor's browsing ability finds the locator
FoundBy(target, has, answer) ==
    LET a == AbilityTo(has)
    IN  IF a.kind = "raise" THEN [calls |-> <<>>, out |-> a]
        ELSE Find(GetLocator(target), answer)

\* element.clear() on a (possibly mocked) WebElement
ElementClear(element, answer) ==
    [calls |-> <<Call("clear", element)>>,
     out |-> IF answer = "ok" THEN Returned(None) ELSE DriverError(answer)]

----------------------------------------------------------------------------
(* Clear *)

ClearMsg(target, e) ==
    <<"Encountered an issue while attempting to clear ", TargetStr(target),
      ": ", e.error>>

\* a perform_as whose message carries the error's text, not its class name
PerformAsStrError(target, has, findAnswer, clearAnswer) ==
    LET found == FoundBy(target, has, findAnswer)
        c == ElementClear(found.out.value, clearAnswer)
    IN  IF found.out.kind = "raise" THEN found
        ELSE IF c.out.kind = "raise" /\ IsWebDriverException(c.out.error)
        THEN [calls |-> found.calls \o c.calls,
              out |-> Raised(DeliveryError,
                             <<"Encountered an issue while attempting to clear ",
                               TargetStr(target), ": ">> \o c.out.msg)]
        ELSE [calls |-> found.calls \o c.calls, out |-> c.out]

\* a perform_as that tries clear() a second time when the first one failed
PerformAsRetry(target, has, findAnswer, clearAnswer) ==
    LET found == FoundBy(target, has, findAnswer)
        c == ElementClear(found.out.value, clearAnswer)
    IN  IF found.out.kind = "raise" THEN found
        ELSE IF c.out.kind = "raise" /\ IsWebDriverException(c.out.error)
        THEN [calls |-> found.calls \o c.calls \o c.calls,
              out |-> Raised(DeliveryError, ClearMsg(target, c.out))]
        ELSE [calls |-> found.calls \o c.calls, out |-> c.out]

\* a perform_as whose try block holds the lookup too and catches every error
PerformAsBroadExcept(target, has, findAnswer, clearAnswer) ==
    LET found == FoundBy(target, has, findAnswer)
        c == ElementClear(found.out.value, clearAnswer)
    IN  IF found.out.kind = "raise"
        THEN [calls |-> found.calls,
              out |-> Raised(DeliveryError, ClearMsg(target, found.out))]
        ELSE IF c.out.kind = "raise"
        THEN [calls |-> found.calls \o c.calls,
              out |-> Raised(DeliveryError, ClearMsg(target, c.out))]
        ELSE [calls |-> found.calls \o c.calls, out |-> c.out]

\* a perform_as whose try block holds the lookup too
PerformAsLookupInTry(target, has, findAnswer, clearAnswer) ==
    LET found == FoundBy(target, has, findAnswer)
        c == ElementClear(found.out.value, clearAnswer)
    IN  IF found.out.kind = "raise" /\ IsWebDriverException(found.out.error)
        THEN [calls |-> found.calls,
              out |-> Raised(DeliveryError, ClearMsg(target, found.out))]
        ELSE IF found.out.kind = "raise" THEN found
        ELSE IF c.out.kind = "raise" /\ IsWebDriverException(c.out.error)
        THEN [calls |-> found.calls \o c.calls,
              out |-> Raised(DeliveryError, ClearMsg(target, c.out))]
        ELSE [calls |-> found.calls \o c.calls, out |-> c.out]

\* a perform_as that wraps every driver error but a timeout
PerformAsTimeoutThrough(target, has, findAnswer, clearAnswer) ==
    LET found == FoundBy(target, has, findAnswer)
        c == ElementClear(found.out.value, clearAnswer)
    IN  IF found.out.kind = "raise" THEN found
        ELSE IF c.out.kind = "raise" /\ IsWebDriverException(c.out.error)
                /\ ~IsTimeoutException(c.out.error)
        THEN [calls |-> found.calls \o c.calls,
              out |-> Raised(DeliveryError, ClearMsg(target, c.out))]
        ELSE [calls |-> found.calls \o c.calls, out |-> c.out]

\* Clear.perform_as
PerformAs(target, has, findAnswer, clearAnswer) ==
    LET found == FoundBy(target, has, findAnswer)
        c == ElementClear(found.out.value, clearAnswer)
    IN  IF found.out.kind = "raise" THEN found
        ELSE IF c.out.kind = "raise" /\ IsWebDriverException(c.out.error)
        THEN [calls |-> found.calls \o c.calls,
              out |-> Raised(DeliveryError, ClearMsg(target, c.out))]
        ELSE [calls |-> found.calls \o c.calls, out |-> c.out]

----------------------------------------------------------------------------
(* Python values handed to the resolutions *)

Alphabet == {"L", "l", " ", "4"}
Digits == <<"0", "1", "2", "3", "4", "5", "6", "7", "8", "9">>

Chars == UNION {[1..n -> Alphabet] : n \in 0..MaxLen}

PyInt(n) == [t |-> "int", n |-> n, s |-> <<>>]
PyFloat(n) == [t |-> "float", n |-> n, s |-> <<>>]
PyStr(s) == [t |-> "str", n |-> 0, s |-> s]

Strs == {PyStr(s) : s \in Chars}
Values == {PyInt(n) : n \in 4..MaxInt} \cup {PyFloat(n) : n \in 4..MaxInt} \cup Strs

RECURSIVE IntStr(_)
IntStr(n) == IF n < 10 THEN <<Digits[n + 1]>>
             ELSE IntStr(n \div 10) \o <<Digits[(n % 10) + 1]>>

\* str(a), as a sequence of characters
Str(a) ==
    CASE a.t = "str" -> a.s
      [] a.t = "int" -> IntStr(a.n)
      [] a.t = "float" -> IntStr(a.n) \o <<".", "0">>

\* a == b: numbers by value whatever their type, strings by their characters,
\* a number and a string never
PyEq(a, b) ==
    IF a.t = "str" \/ b.t = "str"
    THEN a.t = "str" /\ b.t = "str" /\ a.s = b.s
    ELSE a.n = b.n

----------------------------------------------------------------------------
(* hamcrest matchers *)

\* hamcrest.equal_to(obj)
equal_to(obj) == [kind |-> "equal_to", arg |-> obj]

\* hamcrest.has_string(string): str(item) is matched against equal_to(string)
has_string(string) == [kind |-> "has_string", arg |-> string]

\* matcher.matches(item)
Matches(matcher, item) ==
    IF matcher.kind = "equal_to" THEN PyEq(item, matcher.arg)
    ELSE PyEq(PyStr(Str(item)), matcher.arg)

----------------------------------------------------------------------------
(* Resolutions *)

NoResolution ==
    [cls |-> "", expected |-> PyInt(0), matcher |-> equal_to(PyInt(0)), line |-> <<>>]

\* an IsEqualTo that matches on the string representation
IsEqualToByString(obj) ==
    [cls |-> "IsEqualTo", expected |-> obj, matcher |-> has_string(obj),
     line |-> <<Lit("equal to "), Field("expectation")>>]

\* IsEqualTo.__init__ and IsEqualTo.line
IsEqualTo(obj) ==
    [cls |-> "IsEqualTo", expected |-> obj, matcher |-> equal_to(obj),
     line |-> <<Lit("equal to "), Field("expectation")>>]

\* a ReadsExactly that compares the objects themselves
ReadsExactlyByEquality(string) ==
    [cls |-> "ReadsExactly", expected |-> string, matcher |-> equal_to(string),
     line |-> <<Lit("\""), Field("expectation"), Lit("\", verbatim.")>>]

\* ReadsExactly.__init__ and ReadsExactly.line
ReadsExactly(string) ==
    [cls |-> "ReadsExactly", expected |-> string, matcher |-> has_string(string),
     line |-> <<Lit("\""), Field("expectation"), Lit("\", verbatim.")>>]

\* BaseResolution: the description is line.format(expectation=self.expected)
GetLine(r) == Join(Format(r.line, [expectation |-> Join(Str(r.expected))]))

NoCheck == [done |-> FALSE, actual |-> PyInt(0), matched |-> FALSE]

----------------------------------------------------------------------------
(* State machine *)

Ran(op, actor, arg, timeout, cond, env, has, r) ==
    [op |-> op, actor |-> actor, arg |-> arg, timeout |-> timeout, cond |-> cond,
     env |-> env, has |-> has, calls |-> r.calls, out |-> r.out]

NoRun ==
    Ran("", "", AsTuple(<<"", "">>), 0, "", NoEnv, FALSE,
        [calls |-> <<>>, out |-> Returned(None)])

CountCalls(calls, fn) == Cardinality({i \in DOMAIN calls : calls[i].fn = fn})

Init ==
    /\ abilities = [a \in Actors |-> {}]
    /\ forgetCalls = [a \in Actors |-> 0]
    /\ quitCalls = [a \in Actors |-> 0]
    /\ last = NoRun
    /\ resolution = NoResolution
    /\ check = NoCheck
    /\ description = ""

\* AnActor.named(actor).who_can(*kinds)
WhoCan(actor, kinds) ==
    /\ kinds \cap abilities[actor] = {}
    /\ abilities' = [abilities EXCEPT ![actor] = @ \cup kinds]
    /\ UNCHANGED <<forgetCalls, quitCalls, last, resVars>>

\* actor.attempts_to(Clear.the_text_from_the(target))
AttemptsToClear(actor, target, findAnswer, clearAnswer) ==
    LET has == BrowseTheWeb \in abilities[actor]
        r == PerformAs(target, has, findAnswer, clearAnswer)
    IN  /\ last' = Ran("perform_as", actor, target, 0, "",
                       [NoEnv EXCEPT !.find = findAnswer, !.clear = clearAnswer],
                       has, r)
        /\ UNCHANGED <<abilities, forgetCalls, quitCalls, resVars>>

\* the actor's BrowseTheWeb .wait_for(arg, timeout, cond)
DoWaitFor(actor, arg, timeout, cond, ready, crash) ==
    /\ BrowseTheWeb \in abilities[actor]
    /\ last' = Ran("wait_for", actor, arg, timeout, cond,
                   [NoEnv EXCEPT !.ready = ready, !.crash = crash], TRUE,
                   WaitFor(arg, timeout, cond, ready, crash))
    /\ UNCHANGED <<abilities, forgetCalls, quitCalls, resVars>>

\* the actor's BrowseTheWeb .wait_then_find(locator, timeout, cond)
DoWaitThenFind(actor, locator, timeout, cond, ready, crash, answer) ==
    /\ BrowseTheWeb \in abilities[actor]
    /\ last' = Ran("wait_then_find", actor, AsTuple(locator), timeout, cond,
                   [NoEnv EXCEPT !.ready = ready, !.crash = crash, !.find = answer],
                   TRUE, WaitThenFind(locator, timeout, cond, ready, crash, answer))
    /\ UNCHANGED <<abilities, forgetCalls, quitCalls, resVars>>

\* the actor's BrowseTheWeb .wait_then_find_all(locator, timeout, cond)
DoWaitThenFindAll(actor, locator, timeout, cond, ready, crash, answer) ==
    /\ BrowseTheWeb \in abilities[actor]
    /\ last' = Ran("wait_then_find_all", actor, AsTuple(locator), timeout, cond,
                   [NoEnv EXCEPT !.ready = ready, !.crash = crash, !.find = answer],
                   TRUE, WaitThenFindAll(locator, timeout, cond, ready, crash, answer))
    /\ UNCHANGED <<abilities, forgetCalls, quitCalls, resVars>>

\* the actor's BrowseTheWeb .forget()
DoForget(actor, answer) ==
    LET r == Forget(quitCalls[actor], answer)
    IN  /\ BrowseTheWeb \in abilities[actor]
        /\ forgetCalls[actor] < MaxForget
        /\ forgetCalls' = [forgetCalls EXCEPT ![actor] = @ + 1]
        /\ quitCalls' = [quitCalls EXCEPT ![actor] = @ + CountCalls(r.calls, "quit")]
        /\ last' = Ran("forget", actor, AsTuple(<<"", "">>), 0, "",
                       [NoEnv EXCEPT !.quit = answer], TRUE, r)
        /\ UNCHANGED <<abilities, resVars>>

\* IsEqualTo(obj)
NewIsEqualTo(obj) ==
    /\ resolution' = IsEqualTo(obj)
    /\ check' = NoCheck
    /\ description' = ""
    /\ UNCHANGED webVars

\* ReadsExactly(string)
NewReadsExactly(string) ==
    /\ resolution' = ReadsExactly(string)
    /\ check' = NoCheck
    /\ description' = ""
    /\ UNCHANGED webVars

\* resolution.matcher.matches(actual)
Evaluate(actual) ==
    /\ resolution.cls # ""
    /\ check' = [done |-> TRUE, actual |-> actual,
                 matched |-> Matches(resolution.matcher, actual)]
    /\ UNCHANGED <<resolution, description, webVars>>

\* the resolution's description is rendered
Describe ==
    /\ resolution.cls # ""
    /\ description' = GetLine(resolution)
    /\ UNCHANGED <<resolution, check, webVars>>

WaitArgs == {AsTuple(l) : l \in Locators} \cup Targets

\* what a wait meets: the page ready at some time, or the driver failing
WaitAnswers(timeout) ==
    {[ready |-> r, crash |-> FALSE] : r \in ReadyTimes(timeout)}
        \cup {[ready |-> -1, crash |-> TRUE]}

Next ==
    \/ \E a \in Actors : WhoCan(a, {BrowseTheWeb})
    \/ \E a \in Actors, t \in Targets, f \in FindAnswers, c \in ClearAnswers :
          AttemptsToClear(a, t, f, c)
    \/ \E a \in Actors, q \in QuitAnswers : DoForget(a, q)

Spec == Init /\ [][Next]_vars

WaitNext ==
    \/ \E a \in Actors : WhoCan(a, {BrowseTheWeb})
    \/ \E a \in Actors, x \in WaitArgs, t \in Timeouts, c \in Conds :
          \E w \in WaitAnswers(t) : DoWaitFor(a, x, t, c, w.ready, w.crash)
    \/ \E a \in Actors, l \in Locators, t \in Timeouts, c \in Conds :
          \E w \in WaitAnswers(t), f \in FindAnswers :
             DoWaitThenFind(a, l, t, c, w.ready, w.crash, f)
    \/ \E a \in Actors, l \in Locators, t \in Timeouts, c \in Conds :
          \E w \in WaitAnswers(t), f \in FindAllAnswers :
             DoWaitThenFindAll(a, l, t, c, w.ready, w.crash, f)

WaitSpec == Init /\ [][WaitNext]_vars

ResolutionNext ==
    \/ \E obj \in Values : NewIsEqualTo(obj)
    \/ \E string \in Strs : NewReadsExactly(string)
    \/ \E actual \in Values : Evaluate(actual)
    \/ Describe

ResolutionSpec == Init /\ [][ResolutionNext]_vars

----------------------------------------------------------------------------
(* Properties of Clear.perform_as and BrowseTheWeb.forget, under Spec *)

ClearRan == last.op = "perform_as"
ClearCalled == CountCalls(last.calls, "clear")

\* C1: when the actor has the browsing ability, the element is found and its
\* clear() raises WebDriverException or a subclass of it, perform_as raises
\* DeliveryError, with the target's name and the original error's class name
\* in the message; what the caller receives is not the original error.
C1_DriverFailureIsDelivered ==
    (ClearRan /\ last.has /\ last.env.find = "ok" /\ last.env.clear \in DriverErrors)
        => /\ last.out.kind = "raise"
           /\ last.out.error = DeliveryError
           /\ Contains(last.out.msg, last.arg.name)
           /\ Contains(last.out.msg, last.env.clear)
           /\ last.out # DriverError(last.env.clear)

C1_Witness ==
    /\ ClearRan /\ last.has /\ last.env.find = "ok"
    /\ last.env.clear = InvalidElementStateException
    /\ last.arg = COMMENT_FIELD
    /\ last.out.error = DeliveryError

\* C2: one Clear by an actor with the browsing ability calls find exactly
\* once, on the target's locator; when the element is found it calls clear()
\* exactly once, on that element and after the find, also when clear() fails.
C2_FindOnceThenClearOnce ==
    (ClearRan /\ last.has)
        => /\ CountCalls(last.calls, "find") = 1
           /\ last.calls[1] = Call("find", TupleStr(last.arg.locator))
           /\ last.env.find = "ok"
                 => /\ ClearCalled = 1
                    /\ \E i, j \in DOMAIN last.calls :
                          /\ i < j
                          /\ last.calls[i].fn = "find"
                          /\ last.calls[j] = Call("clear", ElementOf(last.arg.locator))

C2_Witness ==
    /\ ClearRan /\ last.has /\ last.actor = "Tester" /\ last.arg = COMMENT_FIELD
    /\ last.env.find = "ok" /\ last.env.clear = WebDriverException
    /\ ClearCalled = 1

\* C3: a Clear by an actor that was never given the browsing ability raises
\* the library's own "the actor lacks the ability" error (no AttributeError
\* or other stray failure), and clear() is not called.
C3_MissingAbilityRaises ==
    (ClearRan /\ ~last.has)
        => /\ last.out.kind = "raise"
           /\ last.out.error = UnableToPerformError
           /\ last.out.error \notin DriverErrors \cup {AttributeError, DeliveryError}
           /\ ClearCalled = 0

C3_Witness ==
    /\ ClearRan /\ ~last.has /\ abilities[last.actor] = {}
    /\ last.out.error = UnableToPerformError
    /\ \E a \in Actors : BrowseTheWeb \in abilities[a]

\* C8, as claimed: a timeout-kind driver error raised by clear() is not
\* reported as a DeliveryError.
C8_TimeoutIsNotDelivered ==
    (ClearRan /\ last.has /\ last.env.find = "ok" /\ last.env.clear = TimeoutException)
        => last.out.error # DeliveryError

\* C8, amended: DeliveryError is raised exactly when clear() failed with a
\* driver-level error, a timeout included: a TimeoutException raised by
\* clear() is reported as a DeliveryError that names TimeoutException.
C8_TimeoutIsDelivered ==
    /\ (ClearRan /\ last.has /\ last.env.find = "ok" /\ last.env.clear = TimeoutException)
          => /\ last.out.kind = "raise"
             /\ last.out.error = DeliveryError
             /\ Contains(last.out.msg, TimeoutException)
    /\ (ClearRan /\ last.out.error = DeliveryError)
          => /\ ClearCalled = 1
             /\ last.env.clear \in DriverErrors

C8_Witness ==
    /\ ClearRan /\ last.has /\ last.env.find = "ok"
    /\ last.env.clear = TimeoutException
    /\ last.out.error = DeliveryError

\* C9: every forget() issues exactly one quit() and nothing else, however
\* often it is called: the browser has received as many quit() calls as
\* forget() ran, and an error raised by quit() reaches the caller as raised.
C9_ForgetAlwaysQuits ==
    /\ \A a \in Actors : quitCalls[a] = forgetCalls[a]
    /\ last.op = "forget"
          => /\ last.calls = <<Call("quit", "")>>
             /\ last.env.quit = "ok" => last.out = Returned(None)
             /\ last.env.quit # "ok" => last.out = DriverError(last.env.quit)

C9_Witness ==
    /\ last.op = "forget"
    /\ forgetCalls[last.actor] = 2
    /\ quitCalls[last.actor] = 2
    /\ last.out = DriverError(WebDriverException)

\* C10: when locating the target fails, clear() is not called and the lookup
\* error reaches the caller as raised, not as a DeliveryError; a
\* DeliveryError comes only from an error that clear() itself raised.
C10_LookupErrorPassesThrough ==
    /\ (ClearRan /\ last.has /\ last.env.find # "ok")
          => /\ ClearCalled = 0
             /\ last.out = DriverError(last.env.find)
             /\ last.out.error # DeliveryError
    /\ (ClearRan /\ last.out.error = DeliveryError)
          => /\ last.env.find = "ok"
             /\ last.calls[Len(last.calls)].fn = "clear"

C10_Witness ==
    /\ ClearRan /\ last.has
    /\ last.env.find = NoSuchElementException
    /\ last.out.error = NoSuchElementException
    /\ ClearCalled = 0

----------------------------------------------------------------------------
(* Properties of the waits, under WaitSpec *)

WaitTimedOut == ~last.env.crash /\ last.env.ready >= last.timeout
WaitHeld == ~last.env.crash /\ last.env.ready < last.timeout

\* C4: wait_for, given a tuple or a Target (resolved by get_locator()): if
\* the condition does not hold before the timeout has elapsed it raises the
\* timeout error with a message that names the resolved locator, the timeout
\* and the condition's name; if the condition holds in time it returns.
C4_WaitForTimeoutMessage ==
    last.op = "wait_for"
        => /\ WaitTimedOut
                 => /\ last.out.kind = "raise"
                    /\ last.out.error = TimeoutException
                    /\ Contains(last.out.msg, TupleStr(last.arg.locator))
                    /\ Contains(last.out.msg, ToString(last.timeout))
                    /\ Contains(last.out.msg, last.cond)
           /\ WaitHeld => last.out = Returned(None)

C4_Witness ==
    /\ last.op = "wait_for" /\ last.arg = NAME_INPUT
    /\ last.timeout = DefaultTimeout /\ last.cond = DefaultCond
    /\ WaitTimedOut
    /\ Contains(last.out.msg, "('css selector', '#name')")
    /\ Contains(last.out.msg, "20")

\* C5: wait_then_find and wait_then_find_all wait first and look up second,
\* with the same locator: the driver lookup is issued only after wait_for
\* returned, and when wait_for times out no lookup is issued and the caller
\* receives the timeout error.
C5_WaitThenLookup ==
    last.op \in {"wait_then_find", "wait_then_find_all"}
        => LET lookup == IF last.op = "wait_then_find" THEN "find_element"
                         ELSE "find_elements"
               loc == TupleStr(last.arg.locator)
           IN  /\ last.calls[1] = Call("until", last.cond \o loc)
               /\ \A i \in DOMAIN last.calls :
                     last.calls[i].fn = lookup
                        => i > 1 /\ last.calls[i].arg = loc /\ WaitHeld
               /\ WaitHeld => CountCalls(last.calls, lookup) = 1
               /\ WaitTimedOut
                     => /\ CountCalls(last.calls, lookup) = 0
                        /\ last.out.kind = "raise"
                        /\ last.out.error = TimeoutException
                        /\ Contains(last.out.msg, " timed out.")

C5_Witness ==
    /\ last.op = "wait_then_find"
    /\ WaitTimedOut
    /\ last.env.find = "ok"
    /\ Len(last.calls) = 1
    /\ last.out.error = TimeoutException

----------------------------------------------------------------------------
(* Properties of the resolutions, under ResolutionSpec *)

\* C6: the matcher of IsEqualTo(e) matches a exactly when a == e (for e = 4:
\* 4 matches, 5 does not), and the description renders as "equal to e"
\* ("equal to 4").
C6_IsEqualToMatchesOnEquality ==
    resolution.cls = "IsEqualTo"
        => /\ check.done
                 => /\ check.matched <=> PyEq(check.actual, resolution.expected)
                    /\ (resolution.expected = PyInt(4) /\ check.actual = PyInt(4))
                          => check.matched
                    /\ (resolution.expected = PyInt(4) /\ check.actual = PyInt(5))
                          => ~check.matched
           /\ description # ""
                 => /\ description = "equal to " \o Join(Str(resolution.expected))
                    /\ resolution.expected = PyInt(4) => description = "equal to 4"

C6_Witness ==
    /\ resolution.cls = "IsEqualTo" /\ resolution.expected = PyInt(4)
    /\ check.done /\ check.actual = PyInt(5) /\ ~check.matched
    /\ description = "equal to 4"

\* C7: the matcher of ReadsExactly(s) matches a exactly when str(a) is s,
\* character for character: a text that differs in case or by a trailing
\* space does not match.
C7_ReadsExactlyMatchesVerbatim ==
    (resolution.cls = "ReadsExactly" /\ check.done)
        => /\ check.matched <=> Str(check.actual) = resolution.expected.s
           /\ (resolution.expected.s = <<"L">> /\ check.actual = PyStr(<<"L">>))
                 => check.matched
           /\ (resolution.expected.s = <<"L">> /\ check.actual = PyStr(<<"l">>))
                 => ~check.matched
           /\ (resolution.expected.s = <<"L">> /\ check.actual = PyStr(<<"L", " ">>))
                 => ~check.matched

C7_Witness ==
    /\ resolution.cls = "ReadsExactly" /\ resolution.expected.s = <<"L">>
    /\ check.done /\ check.actual = PyStr(<<"L", " ">>) /\ ~check.matched

====
